---- MODULE Spec2Model ----
(***************************************************************************)
(* A model of the bethel-flood-visualizer map component: the raster        *)
(* value-to-colour pipeline (two rendering variants), the load / error /   *)
(* overlay bookkeeping of MapComponent, and the decode step of the         *)
(* useTiffData hook.                                                        *)
(***************************************************************************)
EXTENDS Integers, Sequences, FiniteSets, TLC

(***************************************************************************)
(* JavaScript Number arithmetic.  A JavaScript number is an IEEE 754       *)
(* binary64 value; the colour ramp divides by the range 2.2, which is not  *)
(* a binary fraction, so the bin a value falls in depends on the rounding  *)
(* of every operation.  The operators below compute +, -, *, / and floor   *)
(* exactly as binary64 does: the exact result, rounded to a 53-bit         *)
(* significand, ties to even.  Magnitudes are naturals held as sequences   *)
(* of 15-bit limbs, least significant first, without leading zero limbs    *)
(* (the model checker's integers are 32 bits wide).  Exponent overflow,    *)
(* subnormals and infinities are outside the values the model draws.       *)
(***************************************************************************)
Min2(a, b) == IF a <= b THEN a ELSE b

Max2(a, b) == IF a >= b THEN a ELSE b

LimbBits == 15

LimbBase == 2 ^ LimbBits

SignificandBits == 53

\* Limbs of a normalised divisor (60 bits hold the 53-bit significand), and
\* quotient limbs produced after the leading digit: 60 bits or more, the
\* significand, a guard bit and more.
DivisorLimbs == 4

DivQuotientLimbs == 4

RECURSIVE BTrim(_)
BTrim(s) ==
  IF s = <<>> THEN s
  ELSE IF s[Len(s)] = 0 THEN BTrim(SubSeq(s, 1, Len(s) - 1)) ELSE s

RECURSIVE BFromInt(_)
BFromInt(n) == IF n = 0 THEN <<>> ELSE <<n % LimbBase>> \o BFromInt(n \div LimbBase)

BLimb(s, i) == IF i >= 1 /\ i <= Len(s) THEN s[i] ELSE 0

\* Only for magnitudes below 2^30 (two limbs).
BToInt(s) == BLimb(s, 1) + LimbBase * BLimb(s, 2)

RECURSIVE BAddC(_, _, _, _, _)
BAddC(a, b, i, c, acc) ==
  IF i > Max2(Len(a), Len(b))
  THEN IF c = 0 THEN acc ELSE Append(acc, c)
  ELSE LET t == BLimb(a, i) + BLimb(b, i) + c
       IN  BAddC(a, b, i + 1, t \div LimbBase, Append(acc, t % LimbBase))

BAdd(a, b) == BAddC(a, b, 1, 0, <<>>)

RECURSIVE BSubC(_, _, _, _, _)
BSubC(a, b, i, c, acc) ==
  IF i > Len(a) THEN BTrim(acc)
  ELSE LET t == BLimb(a, i) - BLimb(b, i) - c
       IN  IF t < 0 THEN BSubC(a, b, i + 1, 1, Append(acc, t + LimbBase))
           ELSE BSubC(a, b, i + 1, 0, Append(acc, t))

\* a - b for a >= b.
BSub(a, b) == BSubC(a, b, 1, 0, <<>>)

RECURSIVE BCmpAt(_, _, _)
BCmpAt(a, b, i) ==
  IF i = 0 THEN 0
  ELSE IF a[i] > b[i] THEN 1
  ELSE IF a[i] < b[i] THEN -1
  ELSE BCmpAt(a, b, i - 1)

BCmp(a, b) ==
  IF Len(a) > Len(b) THEN 1
  ELSE IF Len(a) < Len(b) THEN -1
  ELSE BCmpAt(a, b, Len(a))

RECURSIVE BMulSmallC(_, _, _, _, _)
BMulSmallC(a, s, i, c, acc) ==
  IF i > Len(a)
  THEN BTrim(IF c = 0 THEN acc ELSE Append(acc, c))
  ELSE LET t == a[i] * s + c
       IN  BMulSmallC(a, s, i + 1, t \div LimbBase, Append(acc, t % LimbBase))

\* a * s for a one-limb s.
BMulSmall(a, s) == BMulSmallC(a, s, 1, 0, <<>>)

BShlLimbs(a, q) == IF a = <<>> THEN <<>> ELSE [i \in 1..q |-> 0] \o a

RECURSIVE BMulAcc(_, _, _, _)
BMulAcc(a, b, j, acc) ==
  IF j > Len(b) THEN acc
  ELSE BMulAcc(a, b, j + 1, BAdd(acc, BShlLimbs(BMulSmall(a, b[j]), j - 1)))

BMul(a, b) == BMulAcc(a, b, 1, <<>>)

\* a * 2^k
BShl(a, k) == BShlLimbs(BMulSmall(a, 2 ^ (k % LimbBits)), k \div LimbBits)

\* floor(a / 2^k)
BShr(a, k) ==
  LET q == k \div LimbBits
      p == 2 ^ (k % LimbBits)
      s == IF q >= Len(a) THEN <<>> ELSE SubSeq(a, q + 1, Len(a))
  IN  BTrim([i \in 1..Len(s) |->
               (s[i] \div p) + (BLimb(s, i + 1) % p) * (LimbBase \div p)])

RECURSIVE IntBitLen(_)
IntBitLen(n) == IF n = 0 THEN 0 ELSE 1 + IntBitLen(n \div 2)

BBitLen(a) ==
  IF a = <<>> THEN 0 ELSE LimbBits * (Len(a) - 1) + IntBitLen(a[Len(a)])

BOdd(a) == a # <<>> /\ a[1] % 2 = 1

\* A finite number: (-1)^neg * man * 2^exp, man = 0 or of exactly 53 bits.
FZero == [t |-> "num", neg |-> FALSE, man |-> <<>>, exp |-> 0]

FNum(neg, man, exp) == [t |-> "num", neg |-> neg, man |-> man, exp |-> exp]

\* The binary64 nearest to (-1)^neg * (n + f) * 2^e, ties to even, where
\* 0 <= f < 1 and sticky says f > 0.
RoundToDouble(neg, n, e, sticky) ==
  LET len == BBitLen(n)
  IN  IF len = 0 THEN FZero
      ELSE IF len <= SignificandBits
      THEN FNum(neg, BShl(n, SignificandBits - len), e - (SignificandBits - len))
      ELSE LET d    == len - SignificandBits
               q    == BShr(n, d)
               rem  == BSub(n, BShl(q, d))
               half == BShl(<<1>>, d - 1)
               c    == BCmp(rem, half)
               up   == c > 0 \/ (c = 0 /\ (sticky \/ BOdd(q)))
               m    == IF up THEN BAdd(q, <<1>>) ELSE q
           IN  IF BBitLen(m) > SignificandBits
               THEN FNum(neg, BShr(m, 1), e + d + 1)
               ELSE FNum(neg, m, e + d)

FFromInt(i) == RoundToDouble(i < 0, BFromInt(IF i < 0 THEN -i ELSE i), 0, FALSE)

FNeg(a) == IF a.man = <<>> THEN a ELSE [a EXCEPT !.neg = ~a.neg]

FAdd(a, b) ==
  IF a.man = <<>> THEN b
  ELSE IF b.man = <<>> THEN a
  ELSE LET e  == Min2(a.exp, b.exp)
           am == BShl(a.man, a.exp - e)
           bm == BShl(b.man, b.exp - e)
           c  == BCmp(am, bm)
       IN  IF a.neg = b.neg THEN RoundToDouble(a.neg, BAdd(am, bm), e, FALSE)
           ELSE IF c = 0 THEN FZero
           ELSE IF c > 0 THEN RoundToDouble(a.neg, BSub(am, bm), e, FALSE)
           ELSE RoundToDouble(b.neg, BSub(bm, am), e, FALSE)

FSub(a, b) == FAdd(a, FNeg(b))

FMul(a, b) ==
  IF a.man = <<>> \/ b.man = <<>> THEN FZero
  ELSE RoundToDouble(a.neg # b.neg, BMul(a.man, b.man), a.exp + b.exp, FALSE)

\* Long division in base 2^15 (Knuth's algorithm D).  The divisor d is
\* normalised: DivisorLimbs limbs, the top one at least half the base.  With
\* r < d * 2^15, the quotient digit is estimated from the top two limbs of r
\* and the top limb of d, and lowered while it is too large.
RECURSIVE DivDigit(_, _, _)
DivDigit(r, d, qhat) ==
  IF BCmp(BMulSmall(d, qhat), r) > 0 THEN DivDigit(r, d, qhat - 1) ELSE qhat

\* With r < 2d on entry and n = 0, the loop ends with
\* quo = floor(r0 * 2^(15 * DivQuotientLimbs) / d), rem = 0 iff exact.
RECURSIVE DivLoop(_, _, _, _)
DivLoop(r, d, q, n) ==
  LET top   == BLimb(r, DivisorLimbs + 1) * LimbBase + BLimb(r, DivisorLimbs)
      digit == DivDigit(r, d, Min2(LimbBase - 1, top \div d[DivisorLimbs]))
      r1    == BSub(r, BMulSmall(d, digit))
      q1    == IF q = <<>> /\ digit = 0 THEN <<>> ELSE <<digit>> \o q
  IN  IF n = DivQuotientLimbs THEN [quo |-> q1, rem |-> r1]
      ELSE DivLoop(BShlLimbs(r1, 1), d, q1, n + 1)

\* a / b for b # 0.
FDiv(a, b) ==
  IF a.man = <<>> THEN FZero
  ELSE LET norm == DivisorLimbs * LimbBits - SignificandBits
           r    == DivLoop(BShl(a.man, norm), BShl(b.man, norm), <<>>, 0)
       IN  RoundToDouble(a.neg # b.neg, r.quo,
                         a.exp - b.exp - DivQuotientLimbs * LimbBits,
                         r.rem # <<>>)

\* -1, 0, 1 as a < b, a = b, a > b.
FCmpMag(a, b) ==
  IF a.man = <<>> THEN (IF b.man = <<>> THEN 0 ELSE -1)
  ELSE IF b.man = <<>> THEN 1
  ELSE IF a.exp > b.exp THEN 1
  ELSE IF a.exp < b.exp THEN -1
  ELSE BCmp(a.man, b.man)

FCmp(a, b) ==
  LET an == a.neg /\ a.man # <<>>
      bn == b.neg /\ b.man # <<>>
  IN  IF an /\ ~bn THEN -1
      ELSE IF ~an /\ bn THEN 1
      ELSE IF an THEN FCmpMag(b, a)
      ELSE FCmpMag(a, b)

\* Math.floor, for |a| < 2^30.
FFloor(a) ==
  IF a.man = <<>> THEN 0
  ELSE LET q     == BShr(a.man, -a.exp)
           exact == BShl(q, -a.exp) = a.man
       IN  IF ~a.neg THEN BToInt(q)
           ELSE IF exact THEN -BToInt(q)
           ELSE -BToInt(q) - 1

(***************************************************************************)
(* JavaScript values and the operators the colour mapping applies to them. *)
(***************************************************************************)
Undefined == [t |-> "undefined"]

Null == [t |-> "null"]

NaN == [t |-> "NaN"]

JsString(chars) == [t |-> "string", chars |-> chars]

\* A decimal literal n/d of the source text: the binary64 nearest to it
\* (n and d are exact, and binary64 division rounds correctly).
DecimalLiteral(n, d) == FDiv(FFromInt(n), FFromInt(d))

\* ToNumber: undefined is NaN, null is +0.
ToNumber(v) ==
  IF v.t = "undefined" THEN NaN ELSE IF v.t = "null" THEN FZero ELSE v

isNaN(v) == ToNumber(v).t = "NaN"

\* a < b: false when either operand converts to NaN.
JsLessThan(a, b) ==
  LET x == ToNumber(a)
      y == ToNumber(b)
  IN  x.t = "num" /\ y.t = "num" /\ FCmp(x, y) < 0

MathMin(a, b) ==
  LET x == ToNumber(a)
      y == ToNumber(b)
  IN  IF x.t = "NaN" \/ y.t = "NaN" THEN NaN
      ELSE IF FCmp(x, y) <= 0 THEN x ELSE y

MathMax(a, b) ==
  LET x == ToNumber(a)
      y == ToNumber(b)
  IN  IF x.t = "NaN" \/ y.t = "NaN" THEN NaN
      ELSE IF FCmp(x, y) >= 0 THEN x ELSE y

\* The store of a number into a Uint8ClampedArray element: clamped to 0..255
\* and rounded to the nearest integer, ties to even.
ToUint8Clamp(x) ==
  IF x.t # "num" \/ FCmp(x, FZero) <= 0 THEN 0
  ELSE IF FCmp(x, FFromInt(255)) >= 0 THEN 255
  ELSE LET f == FFloor(x)
           c == FCmp(x, FAdd(FFromInt(f), DecimalLiteral(1, 2)))
       IN  IF c < 0 THEN f
           ELSE IF c > 0 THEN f + 1
           ELSE IF f % 2 = 0 THEN f ELSE f + 1

\* arr[i] of a JavaScript array (0-based): undefined outside it.
ArrayGet(arr, i) == IF i >= 0 /\ i < Len(arr) THEN arr[i + 1] ELSE Undefined

(***************************************************************************)
(* The palette and the colour ramp constants.                              *)
(***************************************************************************)
purpleGradientColors ==
  << JsString(<<"#", "F", "8", "F", "4", "F", "F">>),
     JsString(<<"#", "E", "8", "D", "5", "F", "2">>),
     JsString(<<"#", "D", "4", "B", "3", "E", "8">>),
     JsString(<<"#", "C", "1", "9", "1", "D", "E">>),
     JsString(<<"#", "B", "D", "6", "F", "C", "B">>),
     JsString(<<"#", "A", "8", "5", "5", "C", "7">>),
     JsString(<<"#", "9", "3", "3", "3", "E", "A">>),
     JsString(<<"#", "7", "C", "3", "A", "E", "D">>),
     JsString(<<"#", "6", "B", "2", "1", "A", "8">>),
     JsString(<<"#", "5", "8", "1", "C", "8", "7">>) >>

min == FFromInt(-2)

max == DecimalLiteral(2, 10)

range == FSub(max, min)

numColors == Len(purpleGradientColors)

HexDigit ==
  [c \in {"0", "1", "2", "3", "4", "5", "6", "7", "8", "9",
          "A", "B", "C", "D", "E", "F", "a", "b", "c", "d", "e", "f"} |->
     CASE c = "0" -> 0 [] c = "1" -> 1 [] c = "2" -> 2 [] c = "3" -> 3
       [] c = "4" -> 4 [] c = "5" -> 5 [] c = "6" -> 6 [] c = "7" -> 7
       [] c = "8" -> 8 [] c = "9" -> 9
       [] c \in {"A", "a"} -> 10 [] c \in {"B", "b"} -> 11
       [] c \in {"C", "c"} -> 12 [] c \in {"D", "d"} -> 13
       [] c \in {"E", "e"} -> 14 [] c \in {"F", "f"} -> 15]

\* /^#?([a-f\d]{2})([a-f\d]{2})([a-f\d]{2})$/i, each pair parsed base 16.
hexToRgb(hex) ==
  LET d == IF hex.chars # <<>> /\ Head(hex.chars) = "#"
           THEN Tail(hex.chars) ELSE hex.chars
  IN  IF Len(d) = 6 /\ \A k \in 1..6 : d[k] \in DOMAIN HexDigit
      THEN [t |-> "rgb",
            v |-> << HexDigit[d[1]] * 16 + HexDigit[d[2]],
                     HexDigit[d[3]] * 16 + HexDigit[d[4]],
                     HexDigit[d[5]] * 16 + HexDigit[d[6]] >>]
      ELSE Null

colorRamp == [k \in 1..Len(purpleGradientColors) |-> hexToRgb(purpleGradientColors[k])]

(***************************************************************************)
(* The canvas variant: one iteration of the pixel loop of renderTiffOverlay *)
(* gives the bytes it stores, by offset from j = i * 4, for the sample       *)
(* pixelValue: the transparent branches store alpha only.                   *)
(***************************************************************************)
pixelLoopBody(pixelValue) ==
  IF pixelValue.t = "undefined" \/ isNaN(pixelValue) \/ JsLessThan(pixelValue, min)
  THEN (3 :> 0)
  ELSE LET clampedValue == MathMax(min, MathMin(max, pixelValue))
           normalized   == FDiv(FSub(clampedValue, min), range)
           colorIndex   == Min2(numColors - 1,
                                FFloor(FMul(normalized, FFromInt(numColors))))
           color        == ArrayGet(colorRamp, colorIndex)
       IN  IF color.t = "rgb"
           THEN (0 :> color.v[1]) @@ (1 :> color.v[2]) @@ (2 :> color.v[3])
                  @@ (3 :> ToUint8Clamp(FMul(FFromInt(255), DecimalLiteral(7, 10))))
           ELSE (3 :> 0)

\* pixelValuesToColorFn without its case for normalized === 1.
pixelValuesToColorFnNoTopCase(values) ==
  LET pixelValue == ArrayGet(values, 0)
  IN  IF pixelValue.t = "undefined" \/ pixelValue.t = "null"
         \/ isNaN(pixelValue) \/ JsLessThan(pixelValue, min)
      THEN Null
      ELSE LET clampedValue == MathMax(min, MathMin(max, pixelValue))
               normalized   == FDiv(FSub(clampedValue, min), range)
           IN  ArrayGet(purpleGradientColors,
                        FFloor(FMul(normalized, FFromInt(numColors))))

(***************************************************************************)
(* The GeoRasterLayer variant: pixelValuesToColorFn of MapComponent.jsx,   *)
(* called with the samples of all bands at one pixel; null is transparent. *)
(***************************************************************************)
pixelValuesToColorFn(values) ==
  LET pixelValue == ArrayGet(values, 0)
  IN  IF pixelValue.t = "undefined" \/ pixelValue.t = "null"
         \/ isNaN(pixelValue) \/ JsLessThan(pixelValue, min)
      THEN Null
      ELSE LET clampedValue == MathMax(min, MathMin(max, pixelValue))
               normalized   == FDiv(FSub(clampedValue, min), range)
           IN  IF FCmp(normalized, FFromInt(1)) = 0
               THEN ArrayGet(purpleGradientColors, numColors - 1)
               ELSE ArrayGet(purpleGradientColors,
                             FFloor(FMul(normalized, FFromInt(numColors))))

(***************************************************************************)
(* Decoded grids.  A grid is what the raster file holds: width, height,    *)
(* band count and the samples, row-major and band-interleaved.  A sample   *)
(* is written as the source text that denotes it: a decimal literal of     *)
(* n hundredths, the expression -2.0 + n * 0.22, or undefined, null, NaN.  *)
(***************************************************************************)
Literal(k, n) == [k |-> k, n |-> n]

JsValueOf(l) ==
  CASE l.k = "undefined" -> Undefined
    [] l.k = "null"      -> Null
    [] l.k = "NaN"       -> NaN
    [] l.k = "dec"       -> DecimalLiteral(l.n, 100)
    [] l.k = "ramp"      -> FAdd(FFromInt(-2),
                                 FMul(FFromInt(l.n), DecimalLiteral(22, 100)))

\* Largest number of samples (width * height * bands) of a drawn grid.
MaxSamples == 4

\* Decimal sample values, in hundredths: the bin boundaries -2 + 0.22 k, the
\* middle of every bin, the neighbours of both ends of the domain, and
\* values well outside it.
DecimalCentis ==
  {-200 + 22 * k : k \in 0..10} \cup {-189 + 22 * k : k \in 0..9}
    \cup {-100000, -300, -201, -199, 0, 19, 21, 100, 2000, 100000}

PixelLiterals ==
  {Literal("undefined", 0), Literal("null", 0), Literal("NaN", 0)}
    \cup {Literal("dec", n) : n \in DecimalCentis}
    \cup {Literal("ramp", k) : k \in 0..10}

\* Samples of the grids of more than one cell.
GridLiterals ==
  {Literal("NaN", 0), Literal("dec", -100), Literal("dec", 19)}

Grids ==
  {[width |-> 1, height |-> 1, bands |-> 1, samples |-> <<l>>] :
     l \in PixelLiterals}
    \cup UNION {
      {[width |-> d[1], height |-> d[2], bands |-> d[3], samples |-> s] :
         s \in [1..(d[1] * d[2] * d[3]) -> GridLiterals]} :
      d \in {e \in (1..MaxSamples) \X (1..MaxSamples) \X (1..MaxSamples) :
               e[1] * e[2] * e[3] >= 2 /\ e[1] * e[2] * e[3] <= MaxSamples}}

VARIABLES
  grid,         \* the decoded raster
  renderPc,     \* canvas variant: "idle", "decoded", "loop", "done"
  i,            \* canvas variant: the pixel loop's index
  data,         \* canvas variant: imageData.data, 4 bytes per cell
  layerPc,      \* layer variant: "idle", "decoded", "drawn"
  layerPixels   \* layer variant: the colour drawn for each cell

renderVars == <<grid, renderPc, i, data, layerPc, layerPixels>>

(***************************************************************************)
(* The map component (MapComponent.jsx, the GeoRasterLayer variant, and    *)
(* part_000, the canvas variant).  React state and refs keep their names.  *)
(* An asynchronous function that is waiting is a record in a set of        *)
(* requests in flight; it completes in an action of its own.  An effect    *)
(* runs in the step of the state change that triggers it.                  *)
(***************************************************************************)
VARIABLES
  variant,           \* "layer" or "canvas" ("none" outside the component)
  loading,           \* useState(false)
  error,             \* useState(null)
  tiffData,          \* useState(null)
  datasetInfo,       \* useState(null)
  availableRasters,  \* useState([])
  selectedRaster,    \* useState(null)
  currentLayerRef,   \* useRef(null): the overlay the component holds
  mapLayers,         \* the overlays attached to the Leaflet map
  placedBounds,      \* the bounds the overlay last attached was placed with
  catalogRequests,   \* loadDatasetInfo calls awaiting fetchDatasetInfo
  tiffRequests,      \* loadTiffData calls awaiting fetch and decode
  renders,           \* renderTiffOverlay calls awaiting getImage/readRasters
  issuedCatalog,     \* loadDatasetInfo calls so far
  issuedTiff         \* loadTiffData calls so far

mapVars ==
  <<variant, loading, error, tiffData, datasetInfo, availableRasters,
    selectedRaster, currentLayerRef, mapLayers, placedBounds, catalogRequests,
    tiffRequests, renders, issuedCatalog, issuedTiff>>

(***************************************************************************)
(* The authenticated data hook (useTiffData.js) and useAuth.jsx.  The      *)
(* hook's loading, error, tiffData and datasetInfo carry the prefix hook.  *)
(***************************************************************************)
VARIABLES
  authInfo,          \* useAuth: useState({isAuthenticated: false, token: null})
  hookLoading,       \* useState(false)
  hookError,         \* useState(null)
  hookTiffData,      \* useState(null)
  hookDatasetInfo,   \* useState(null)
  hookRequests,      \* loadTiffData calls of the hook awaiting their fetches
  hookIssued         \* loadTiffData calls of the hook that passed the guards

hookVars ==
  <<authInfo, hookLoading, hookError, hookTiffData, hookDatasetInfo,
    hookRequests, hookIssued>>

(***************************************************************************)
(* The legend hook (useLegend.jsx): its three arguments and its result.    *)
(***************************************************************************)
VARIABLES
  legendArgs,        \* currentVisualization, datasetInfo, visualizationType
  legendConfig       \* what useLegend returns (undefined before it has run)

legendVars == <<legendArgs, legendConfig>>

(***************************************************************************)
(* The catalog's answer and the raster list built from it                  *)
(* (getAllTiffResources of the components, getLatestTiffUrl of the hook).  *)
(***************************************************************************)
VARIABLES
  dataset,           \* the dataset fetchDatasetInfo resolved with
  sortedTiffs,       \* what getAllTiffResources returned or threw
  latestTiff         \* what getLatestTiffUrl returned or threw

catalogVars == <<dataset, sortedTiffs, latestTiff>>

vars == <<renderVars, mapVars, hookVars, legendVars, catalogVars>>

\* The variables of a part the specification at hand does not run.
RenderIdle ==
  /\ grid = Null
  /\ renderPc = "idle"
  /\ i = 0
  /\ data = <<>>
  /\ layerPc = "idle"
  /\ layerPixels = <<>>

MapIdle ==
  /\ variant = "none"
  /\ loading = FALSE
  /\ error = Null
  /\ tiffData = Null
  /\ datasetInfo = Null
  /\ availableRasters = <<>>
  /\ selectedRaster = Null
  /\ currentLayerRef = Null
  /\ mapLayers = {}
  /\ placedBounds = Null
  /\ catalogRequests = 0
  /\ tiffRequests = {}
  /\ renders = {}
  /\ issuedCatalog = 0
  /\ issuedTiff = 0

HookIdle ==
  /\ authInfo = Null
  /\ hookLoading = FALSE
  /\ hookError = Null
  /\ hookTiffData = Null
  /\ hookDatasetInfo = Null
  /\ hookRequests = {}
  /\ hookIssued = 0

LegendIdle ==
  /\ legendArgs = Null
  /\ legendConfig = Undefined

CatalogIdle ==
  /\ dataset = Null
  /\ sortedTiffs = Undefined
  /\ latestTiff = Undefined

(***************************************************************************)
(* Rendering one decoded grid, in each variant.                            *)
(***************************************************************************)
\* image.readRasters({ interleave: true }): one array of all samples.
readRasters(g) == [k \in 1..Len(g.samples) |-> JsValueOf(g.samples[k])]

\* The values array GeoRasterLayer hands to pixelValuesToColorFn for cell p
\* (1-based, row-major): the sample of every band at that cell.
valuesAt(g, p) ==
  [b \in 1..g.bands |-> JsValueOf(g.samples[(p - 1) * g.bands + b])]

InitRender ==
  /\ grid \in Grids
  /\ renderPc = "decoded"
  /\ i = 0
  /\ data = <<>>
  /\ layerPc = "decoded"
  /\ layerPixels = <<>>
  /\ MapIdle
  /\ HookIdle
  /\ LegendIdle
  /\ CatalogIdle

\* part_000 lines 73-81: the canvas and its zero-filled image data.
createImageData ==
  /\ renderPc = "decoded"
  /\ data' = [k \in 1..(grid.width * grid.height * 4) |-> 0]
  /\ i' = 0
  /\ renderPc' = "loop"
  /\ UNCHANGED <<grid, layerPc, layerPixels, mapVars, hookVars, legendVars, catalogVars>>

\* A store into the Uint8ClampedArray: an index outside it is ignored.
StoreBytes(buf, j, bytes) ==
  [k \in 1..Len(buf) |->
     IF k - 1 - j \in DOMAIN bytes THEN bytes[k - 1 - j] ELSE buf[k]]

\* part_000 lines 94-115: one iteration of the pixel loop.
pixelLoopIteration ==
  /\ renderPc = "loop"
  /\ i < Len(grid.samples)
  /\ data' = StoreBytes(data, i * 4, pixelLoopBody(ArrayGet(readRasters(grid), i)))
  /\ i' = i + 1
  /\ UNCHANGED <<grid, renderPc, layerPc, layerPixels, mapVars, hookVars, legendVars, catalogVars>>

\* part_000 lines 94, 117: the loop ends and the image data is put.
putImageData ==
  /\ renderPc = "loop"
  /\ i >= Len(grid.samples)
  /\ renderPc' = "done"
  /\ UNCHANGED <<grid, i, data, layerPc, layerPixels, mapVars, hookVars, legendVars, catalogVars>>

\* MapComponent.jsx lines 90-97: the layer draws every cell with
\* pixelValuesToColorFn.
geoRasterLayerDraw ==
  /\ layerPc = "decoded"
  /\ layerPixels' = [p \in 1..(grid.width * grid.height) |->
                       pixelValuesToColorFn(valuesAt(grid, p))]
  /\ layerPc' = "drawn"
  /\ UNCHANGED <<grid, renderPc, i, data, mapVars, hookVars, legendVars, catalogVars>>

NextRender ==
  \/ createImageData
  \/ pixelLoopIteration
  \/ putImageData
  \/ geoRasterLayerDraw

SpecRender == InitRender /\ [][NextRender]_vars

(***************************************************************************)
(* The map component's operations.                                         *)
(***************************************************************************)
\* loadDatasetInfo calls the model follows (the first is the mount effect).
MaxCatalogLoads == 2

\* loadTiffData calls the raster selector may bring the total to.
MaxTiffLoads == 2

\* TIFF resources of the largest dataset.
NumRasters == 2

Message(text) == [t |-> "string", text |-> text]

\* What fetchDatasetInfo can give: a rejection, a dataset without a
\* resources list, or a dataset with n resources that pass the TIFF filter.
CatalogOutcomes ==
  {[k |-> "rejected", n |-> 0], [k |-> "noResources", n |-> 0]}
    \cup {[k |-> "dataset", n |-> n] : n \in 0..NumRasters}

Dataset(o) == [t |-> "dataset", k |-> o.k, n |-> o.n]

\* getAllTiffResources of a dataset with n TIFF resources: newest first,
\* with the ids 1..n in that order.
getAllTiffResources(o) == [k \in 1..o.n |-> [t |-> "resource", id |-> k]]

Overlay(req) == [t |-> "layer", req |-> req]

InitMap ==
  /\ variant \in {"layer", "canvas"}
  /\ loading = TRUE
  /\ error = Null
  /\ tiffData = Null
  /\ datasetInfo = Null
  /\ availableRasters = <<>>
  /\ selectedRaster = Null
  /\ currentLayerRef = Null
  /\ mapLayers = {}
  /\ placedBounds = Null
  /\ catalogRequests = 1
  /\ tiffRequests = {}
  /\ renders = {}
  /\ issuedCatalog = 1
  /\ issuedTiff = 0
  /\ RenderIdle
  /\ HookIdle
  /\ LegendIdle
  /\ CatalogIdle

\* The effect on selectedRaster calls loadTiffData(r), which runs up to its
\* first await: setLoading(true), setError(null), fetch.
StartLoadTiffData(r) ==
  /\ loading' = TRUE
  /\ error' = Null
  /\ tiffRequests' = tiffRequests \cup {[req |-> issuedTiff + 1, info |-> r]}
  /\ issuedTiff' = issuedTiff + 1

\* loadDatasetInfo after its await, fetchDatasetInfo having resolved with a
\* dataset that has TIFF resources: the first becomes the selection, and the
\* effect on selectedRaster starts its load (the new selection is a new
\* object even when the id is the same).
LoadDatasetInfoOk(o) ==
  /\ catalogRequests > 0
  /\ o.k = "dataset" /\ o.n > 0
  /\ catalogRequests' = catalogRequests - 1
  /\ datasetInfo' = Dataset(o)
  /\ availableRasters' = getAllTiffResources(o)
  /\ selectedRaster' = getAllTiffResources(o)[1]
  /\ StartLoadTiffData(getAllTiffResources(o)[1])
  /\ UNCHANGED <<variant, placedBounds, tiffData, currentLayerRef, mapLayers, renders,
                 issuedCatalog, renderVars, hookVars, legendVars, catalogVars>>

\* loadDatasetInfo after its await, failing: fetchDatasetInfo rejected, or
\* getAllTiffResources threw after setDatasetInfo.
LoadDatasetInfoFailed(o) ==
  /\ catalogRequests > 0
  /\ o.k # "dataset" \/ o.n = 0
  /\ catalogRequests' = catalogRequests - 1
  /\ datasetInfo' = IF o.k = "rejected" THEN datasetInfo ELSE Dataset(o)
  /\ error' = Message(IF o.k = "rejected" THEN "Failed to fetch dataset info"
                      ELSE IF o.k = "noResources" THEN "No resources found in dataset"
                      ELSE "No TIFF files found in dataset")
  /\ loading' = FALSE
  /\ UNCHANGED <<variant, placedBounds, tiffData, availableRasters, selectedRaster,
                 currentLayerRef, mapLayers, tiffRequests, renders,
                 issuedCatalog, issuedTiff, renderVars, hookVars, legendVars, catalogVars>>

\* The error box with its Retry button is rendered: {error && (...)}.
RetryAvailable == error # Null /\ error # Message("")

\* The Retry button, shown while error is set, calls loadDatasetInfo, which
\* runs up to its await.
Retry ==
  /\ variant # "none"
  /\ RetryAvailable
  /\ issuedCatalog < MaxCatalogLoads
  /\ loading' = TRUE
  /\ error' = Null
  /\ catalogRequests' = catalogRequests + 1
  /\ issuedCatalog' = issuedCatalog + 1
  /\ UNCHANGED <<variant, placedBounds, tiffData, datasetInfo, availableRasters,
                 selectedRaster, currentLayerRef, mapLayers, tiffRequests,
                 renders, issuedTiff, renderVars, hookVars, legendVars, catalogVars>>

\* The raster selector's disabled attribute.
SelectDisabled == loading \/ Len(availableRasters) = 0

\* The raster selector, enabled while not loading, changes to the raster
\* with id rasterId; the effect on selectedRaster starts its load.
handleRasterChange(rasterId) ==
  /\ ~SelectDisabled
  /\ rasterId \in 1..Len(availableRasters)
  /\ selectedRaster # Null /\ rasterId # selectedRaster.id
  /\ issuedTiff < MaxTiffLoads
  /\ selectedRaster' = availableRasters[rasterId]
  /\ StartLoadTiffData(availableRasters[rasterId])
  /\ UNCHANGED <<variant, placedBounds, tiffData, datasetInfo, availableRasters,
                 currentLayerRef, mapLayers, catalogRequests, renders,
                 issuedCatalog, renderVars, hookVars, legendVars, catalogVars>>

\* Native bounds of the rasters the component decodes, in hundredths: one
\* geographic box (degrees) and one projected box (UTM metres).
NativeBoxes ==
  {[xmin |-> Literal("dec", -9500), xmax |-> Literal("dec", -8900),
    ymin |-> Literal("dec", 2700), ymax |-> Literal("dec", 3000)],
   [xmin |-> Literal("dec", 20000000), xmax |-> Literal("dec", 80000000),
    ymin |-> Literal("dec", 280000000), ymax |-> Literal("dec", 330000000)]}

\* An overlay placement: the raster it was built from (its native bounds)
\* and the bounds handed to Leaflet, [[ymin, xmin], [ymax, xmax]].
Placement(req, georaster, bbox) ==
  [t |-> "placement", req |-> req, georaster |-> georaster,
   bounds |-> <<<<bbox.ymin, bbox.xmin>>, <<bbox.ymax, bbox.xmax>>>>]

\* The effect on tiffData, given decoded data: the overlay held in
\* currentLayerRef is removed from the map; then the layer variant builds
\* and attaches the new layer at once (attached = FALSE: the constructor
\* threw, which is only logged), and the canvas variant starts
\* renderTiffOverlay, which runs up to its first await.
TiffDataEffect(req, attached, georaster) ==
  LET kept == IF currentLayerRef = Null THEN mapLayers
              ELSE mapLayers \ {currentLayerRef}
  IN  IF variant = "layer"
      THEN /\ mapLayers' = IF attached THEN kept \cup {Overlay(req)} ELSE kept
           /\ currentLayerRef' = IF attached THEN Overlay(req) ELSE Null
           /\ placedBounds' = IF attached THEN Placement(req, georaster, georaster)
                              ELSE placedBounds
           /\ renders' = renders
      ELSE /\ mapLayers' = kept
           /\ currentLayerRef' = Null
           /\ placedBounds' = placedBounds
           /\ renders' = renders \cup {[req |-> req, georaster |-> georaster]}

\* loadTiffData after its awaits, the fetch having answered ok and the
\* bytes having decoded: setTiffData with the decoded data, setLoading(false).
LoadTiffDataOk(l, attached, georaster) ==
  /\ l \in tiffRequests
  /\ variant = "layer" \/ attached
  /\ tiffRequests' = tiffRequests \ {l}
  /\ tiffData' = [t |-> "tiffData", isActualData |-> TRUE, info |-> l.info,
                  req |-> l.req, error |-> Null, georaster |-> georaster]
  /\ loading' = FALSE
  /\ TiffDataEffect(l.req, attached, georaster)
  /\ UNCHANGED <<variant, error, datasetInfo, availableRasters, selectedRaster,
                 catalogRequests, issuedCatalog, issuedTiff, renderVars,
                 hookVars, legendVars, catalogVars>>

\* loadTiffData after its awaits, the fetch having failed ("fetch": a
\* rejection or a non-ok status) or the decoder having thrown ("decode"):
\* the inner catch sets the placeholder, then setLoading(false).  The effect
\* on tiffData returns at once, the placeholder holding no decoded data.
LoadTiffDataFailed(l, cause) ==
  /\ l \in tiffRequests
  /\ tiffRequests' = tiffRequests \ {l}
  /\ tiffData' = [t |-> "tiffData", isActualData |-> FALSE, info |-> l.info,
                  req |-> l.req, error |-> Message(cause), georaster |-> Undefined]
  /\ loading' = FALSE
  /\ UNCHANGED <<variant, placedBounds, error, datasetInfo, availableRasters, selectedRaster,
                 currentLayerRef, mapLayers, catalogRequests, renders,
                 issuedCatalog, issuedTiff, renderVars, hookVars, legendVars, catalogVars>>

\* renderTiffOverlay after its awaits: the overlay is added to the map and
\* stored in currentLayerRef; fitBounds may still throw (fits = FALSE), which
\* the catch reports in error.
RenderDone(r, fits) ==
  /\ r \in renders
  /\ renders' = renders \ {r}
  /\ mapLayers' = mapLayers \cup {Overlay(r.req)}
  /\ currentLayerRef' = Overlay(r.req)
  /\ placedBounds' = Placement(r.req, r.georaster, r.georaster)
  /\ error' = IF fits THEN error
              ELSE Message("Could not render the selected raster. It may be in an unsupported format.")
  /\ UNCHANGED <<variant, loading, tiffData, datasetInfo, availableRasters,
                 selectedRaster, catalogRequests, tiffRequests, issuedCatalog,
                 issuedTiff, renderVars, hookVars, legendVars, catalogVars>>

\* renderTiffOverlay throwing before the overlay exists (getImage,
\* readRasters or the drawing): the catch reports it in error.
RenderFailed(r) ==
  /\ r \in renders
  /\ renders' = renders \ {r}
  /\ error' = Message("Could not render the selected raster. It may be in an unsupported format.")
  /\ UNCHANGED <<variant, placedBounds, loading, tiffData, datasetInfo, availableRasters,
                 selectedRaster, currentLayerRef, mapLayers, catalogRequests,
                 tiffRequests, issuedCatalog, issuedTiff, renderVars, hookVars, legendVars, catalogVars>>

NextMap ==
  \/ \E o \in CatalogOutcomes : LoadDatasetInfoOk(o)
  \/ \E o \in CatalogOutcomes : LoadDatasetInfoFailed(o)
  \/ Retry
  \/ \E rasterId \in 1..NumRasters : handleRasterChange(rasterId)
  \/ \E l \in tiffRequests, attached \in BOOLEAN, georaster \in NativeBoxes :
       LoadTiffDataOk(l, attached, georaster)
  \/ \E l \in tiffRequests, cause \in {"fetch", "decode"} : LoadTiffDataFailed(l, cause)
  \/ \E r \in renders, fits \in BOOLEAN : RenderDone(r, fits)
  \/ \E r \in renders : RenderFailed(r)

SpecMap == InitMap /\ [][NextMap]_vars

(***************************************************************************)
(* The authenticated data hook.                                            *)
(***************************************************************************)
\* loadTiffData calls of the hook that pass the guards.
MaxHookLoads == 2

\* A token is null, a string, or a truthy value that is not a string.
StrToken == [t |-> "string", text |-> "token"]

ObjToken == [t |-> "object", access_token |-> Null]

\* The token object of a Tapis v3 response: { access_token: "...", ... }.
TapisToken == [t |-> "object", access_token |-> StrToken]

Truthy(v) == v.t \notin {"null", "undefined"} /\ v # Message("")

\* What the Header component hands to handleAuthChange: isAuthenticated,
\* result.access_token.access_token (tapis), access_token, token.
AuthData ==
  [isAuthenticated : BOOLEAN,
   tapis           : {Null, StrToken},
   access_token    : {Null, StrToken, [t |-> "object", access_token |-> StrToken]},
   token           : {Null, StrToken, ObjToken, TapisToken}]

getAccessToken(authData) ==
  IF Truthy(authData.tapis) THEN authData.tapis
  ELSE IF authData.access_token.t = "string" THEN authData.access_token
  ELSE IF Truthy(authData.access_token) /\ Truthy(authData.access_token.access_token)
       THEN authData.access_token.access_token
  ELSE authData.token

\* The authentication server's answers, by the place and the kind of their
\* access_token: authResult.access_token, authResult.result.access_token,
\* authResult.data.access_token, each absent, a string or a token object.
AuthResults ==
  [access_token : {Undefined, StrToken, TapisToken},
   result       : {Undefined, StrToken, TapisToken},
   data         : {Undefined, StrToken, TapisToken}]

\* handleLogin of Header: the accessToken it extracts from the answer.
accessTokenOf(authResult) ==
  IF Truthy(authResult.access_token) THEN authResult.access_token
  ELSE IF Truthy(authResult.result) THEN authResult.result
  ELSE IF Truthy(authResult.data) THEN authResult.data
  ELSE Null

\* What Header hands to handleAuthChange: on a login with an accessToken,
\* and on logout.
HeaderPayloads ==
  {[isAuthenticated |-> TRUE, tapis |-> Null, access_token |-> Null,
    token |-> accessTokenOf(r)] : r \in {q \in AuthResults : Truthy(accessTokenOf(q))}}
    \cup {[isAuthenticated |-> FALSE, tapis |-> Null, access_token |-> Null,
           token |-> Null]}

\* Native bounds of the decoded rasters, in hundredths of a degree or
\* metre: both sides of each limit of the geographic test, and NaN.
XLiterals ==
  {Literal("NaN", 0)} \cup
    {Literal("dec", n) : n \in {-18001, -18000, 18000, 18001}}

YLiterals ==
  {Literal("NaN", 0)} \cup
    {Literal("dec", n) : n \in {-9001, -9000, 9000, 9001}}

\* a >= b and a <= b: false when either operand is NaN.
JsGreaterEq(a, b) ==
  LET x == ToNumber(a)
      y == ToNumber(b)
  IN  x.t = "num" /\ y.t = "num" /\ FCmp(x, y) >= 0

JsLessEq(a, b) == JsGreaterEq(b, a)

\* isGeographic with xmin > -180 in place of xmin >= -180.
isGeographicStrictWest(georaster) ==
  /\ ~JsLessEq(JsValueOf(georaster.xmin), FFromInt(-180))
  /\ JsValueOf(georaster.xmin).t = "num"
  /\ JsLessEq(JsValueOf(georaster.xmax), FFromInt(180))
  /\ JsGreaterEq(JsValueOf(georaster.ymin), FFromInt(-90))
  /\ JsLessEq(JsValueOf(georaster.ymax), FFromInt(90))

isGeographic(georaster) ==
  /\ JsGreaterEq(JsValueOf(georaster.xmin), FFromInt(-180))
  /\ JsLessEq(JsValueOf(georaster.xmax), FFromInt(180))
  /\ JsGreaterEq(JsValueOf(georaster.ymin), FFromInt(-90))
  /\ JsLessEq(JsValueOf(georaster.ymax), FFromInt(90))

displayBounds(georaster) ==
  IF isGeographic(georaster)
  THEN [xmin |-> georaster.xmin, xmax |-> georaster.xmax,
        ymin |-> georaster.ymin, ymax |-> georaster.ymax,
        isProjected |-> FALSE, originalBounds |-> Undefined]
  ELSE [xmin |-> Literal("dec", -9750), xmax |-> Literal("dec", -8000),
        ymin |-> Literal("dec", 2500), ymax |-> Literal("dec", 3050),
        isProjected |-> TRUE, originalBounds |-> georaster]

InitHook ==
  /\ authInfo = [isAuthenticated |-> FALSE, token |-> Null]
  /\ hookLoading = FALSE
  /\ hookError = Null
  /\ hookTiffData = Null
  /\ hookDatasetInfo = Null
  /\ hookRequests = {}
  /\ hookIssued = 0
  /\ RenderIdle
  /\ MapIdle
  /\ LegendIdle
  /\ CatalogIdle

\* An auto-load effect without the test of loading.
AutoLoadsWhileLoading(auth, td, ld) ==
  auth.isAuthenticated /\ Truthy(auth.token) /\ td = Null

\* The auto-load effect's condition, on the values of one render.
AutoLoads(auth, td, ld) ==
  auth.isAuthenticated /\ Truthy(auth.token) /\ td = Null /\ ~ld

\* loadTiffData of the hook up to its first await, called with the state
\* err, ld of the render and the authInfo auth it closes over: the two
\* guards, then setLoading(true), setError(null), fetchDatasetInfo.
HookLoadTiffData(auth, err, ld) ==
  IF ~auth.isAuthenticated
  THEN /\ hookError' = Message("Please log in to access the Gulf Coast InSAR TIFF data")
       /\ hookLoading' = ld
       /\ UNCHANGED <<hookRequests, hookIssued>>
  ELSE IF auth.token.t # "string"
  THEN /\ hookError' = Message("Invalid authentication token")
       /\ hookLoading' = ld
       /\ UNCHANGED <<hookRequests, hookIssued>>
  ELSE /\ hookLoading' = TRUE
       /\ hookError' = Null
       /\ hookRequests' = hookRequests \cup {[req |-> hookIssued + 1]}
       /\ hookIssued' = hookIssued + 1

\* A call passes the guards only while the model follows further calls.
HookLoadAllowed(auth) ==
  (auth.isAuthenticated /\ auth.token.t = "string") => hookIssued < MaxHookLoads

\* handleAuthChange of useAuth, then the hook's effects on the new authInfo:
\* the auto-load effect, and the effect that clears the data when
\* isAuthenticated turns false.
handleAuthChange(newAuthInfo) ==
  LET processedAuthInfo ==
        [isAuthenticated |-> newAuthInfo.isAuthenticated,
         token |-> getAccessToken(newAuthInfo)]
  IN  /\ authInfo # Null
      /\ authInfo' = processedAuthInfo
      /\ IF AutoLoads(processedAuthInfo, hookTiffData, hookLoading)
         THEN /\ HookLoadAllowed(processedAuthInfo)
              /\ HookLoadTiffData(processedAuthInfo, hookError, hookLoading)
              /\ UNCHANGED <<hookTiffData, hookDatasetInfo>>
         ELSE IF authInfo.isAuthenticated /\ ~processedAuthInfo.isAuthenticated
         THEN /\ hookTiffData' = Null
              /\ hookDatasetInfo' = Null
              /\ hookError' = Null
              /\ UNCHANGED <<hookLoading, hookRequests, hookIssued>>
         ELSE UNCHANGED <<hookLoading, hookError, hookTiffData,
                          hookDatasetInfo, hookRequests, hookIssued>>
      /\ UNCHANGED <<renderVars, mapVars, legendVars, catalogVars>>

\* The hook's consumer calls loadTiffData (as a Retry button does).  The
\* error it may set is no dependency of the auto-load effect.
loadTiffData ==
  /\ authInfo # Null
  /\ HookLoadAllowed(authInfo)
  /\ HookLoadTiffData(authInfo, hookError, hookLoading)
  /\ UNCHANGED <<authInfo, hookTiffData, hookDatasetInfo,
                 renderVars, mapVars, legendVars, catalogVars>>

\* loadTiffData of the hook after its awaits, everything having succeeded:
\* the decoded raster has the native bounds given.
HookLoadOk(r, xmin, xmax, ymin, ymax) ==
  LET georaster == [xmin |-> xmin, xmax |-> xmax, ymin |-> ymin, ymax |-> ymax]
  IN  /\ r \in hookRequests
      /\ hookRequests' = hookRequests \ {r}
      /\ hookDatasetInfo' = [t |-> "dataset", k |-> "dataset", n |-> 1]
      /\ hookTiffData' = [t |-> "tiffData", georaster |-> georaster,
                          bounds |-> displayBounds(georaster)]
      /\ hookLoading' = FALSE
      /\ UNCHANGED <<authInfo, hookError, hookIssued, renderVars, mapVars, legendVars, catalogVars>>

\* loadTiffData of the hook after its awaits, failing at stage: the catalog
\* request, the search for a TIFF resource, the raster fetch, the decoder.
\* The state change reruns the auto-load effect, which, its condition
\* holding again, calls loadTiffData anew.
HookLoadFailed(r, stage) ==
  /\ r \in hookRequests
  /\ hookDatasetInfo' = IF stage = "catalog" THEN hookDatasetInfo
                        ELSE [t |-> "dataset", k |-> "dataset",
                              n |-> IF stage = "noTiff" THEN 0 ELSE 1]
  /\ UNCHANGED <<authInfo, hookTiffData, renderVars, mapVars, legendVars, catalogVars>>
  /\ IF AutoLoads(authInfo, hookTiffData, FALSE) /\ authInfo.token.t = "string"
     THEN /\ hookIssued < MaxHookLoads
          /\ hookLoading' = TRUE
          /\ hookError' = Null
          /\ hookRequests' = (hookRequests \ {r}) \cup {[req |-> hookIssued + 1]}
          /\ hookIssued' = hookIssued + 1
     ELSE /\ hookLoading' = FALSE
          /\ hookError' = IF AutoLoads(authInfo, hookTiffData, FALSE)
                          THEN Message("Invalid authentication token")
                          ELSE Message(stage)
          /\ hookRequests' = hookRequests \ {r}
          /\ UNCHANGED hookIssued

NextHook ==
  \/ \E newAuthInfo \in AuthData : handleAuthChange(newAuthInfo)
  \/ \E r \in hookRequests, xmin \in XLiterals, xmax \in XLiterals,
        ymin \in YLiterals, ymax \in YLiterals :
       HookLoadOk(r, xmin, xmax, ymin, ymax)
  \/ \E r \in hookRequests, stage \in {"catalog", "noTiff", "fetch", "decode"} :
       HookLoadFailed(r, stage)

SpecHook == InitHook /\ [][NextHook]_vars

\* Either loader in use: the map component with its raster selector, or
\* the authenticated hook.
InitLoads == InitMap \/ InitHook

NextLoads ==
  \/ NextMap
  \/ NextHook

SpecLoads == InitLoads /\ [][NextLoads]_vars

\* The hook with a consumer that calls loadTiffData; the rasters decoded
\* are the two of NativeBoxes.
NextHookConsumer ==
  \/ \E newAuthInfo \in AuthData : handleAuthChange(newAuthInfo)
  \/ loadTiffData
  \/ \E r \in hookRequests, g \in NativeBoxes :
       HookLoadOk(r, g.xmin, g.xmax, g.ymin, g.ymax)
  \/ \E r \in hookRequests, stage \in {"catalog", "noTiff", "fetch", "decode"} :
       HookLoadFailed(r, stage)

SpecHookConsumer == InitHook /\ [][NextHookConsumer]_vars


(***************************************************************************)
(* The legend hook.                                                        *)
(***************************************************************************)
visualizationOptions ==
  << [t |-> "option", value |-> "displacement", label |-> "Ground Displacement"],
     [t |-> "option", value |-> "velocity", label |-> "Velocity"],
     [t |-> "option", value |-> "coherence", label |-> "Coherence"],
     [t |-> "option", value |-> "elevation", label |-> "Elevation"] >>

DigitChars == <<"0", "1", "2", "3", "4", "5", "6", "7", "8", "9">>

\* The decimal digits of a natural number, as characters.
RECURSIVE NatChars(_)
NatChars(n) ==
  IF n < 10 THEN <<DigitChars[n + 1]>>
  ELSE NatChars(n \div 10) \o <<DigitChars[(n % 10) + 1]>>

\* Number.prototype.toFixed(fractionDigits), for |x| * 10^fractionDigits
\* below 2^30: n is the integer nearest to |x| * 10^fractionDigits (the
\* larger of two equally near), written with the point before its last
\* fractionDigits digits, after "-" when x < 0.
toFixed(x, fractionDigits) ==
  LET scaled == BMulSmall(x.man, 10 ^ fractionDigits)
      k      == -x.exp
      q      == IF k <= 0 THEN BShl(scaled, -k) ELSE BShr(scaled, k)
      rem    == IF k <= 0 THEN <<>> ELSE BSub(scaled, BShl(q, k))
      up     == k > 0 /\ BCmp(BShl(rem, 1), BShl(<<1>>, k)) >= 0
      n      == BToInt(q) + (IF up THEN 1 ELSE 0)
      frac   == NatChars(10 ^ fractionDigits + (n % (10 ^ fractionDigits)))
  IN  (IF x.neg THEN <<"-">> ELSE <<>>)
        \o NatChars(n \div (10 ^ fractionDigits))
        \o <<".">> \o Tail(frac)

\* formatLegendNumber with two decimals in place of three.
formatLegendNumberTwoDecimals(value) ==
  IF value.t \in {"null", "undefined"} THEN JsString(<<"N", "/", "A">>)
  ELSE IF isNaN(value) THEN JsString(<<"N", "/", "A">>)
  ELSE JsString(toFixed(value, 2))

\* parseFloat of a number gives the number back.
formatLegendNumber(value) ==
  IF value.t \in {"null", "undefined"} THEN JsString(<<"N", "/", "A">>)
  ELSE IF isNaN(value) THEN JsString(<<"N", "/", "A">>)
  ELSE JsString(toFixed(value, 3))

useLegend(currentVisualization, datasetInfoArg, visualizationTypeArg) ==
  IF ~Truthy(currentVisualization) THEN Null
  ELSE LET numSteps == Len(purpleGradientColors)
           step     == FDiv(FSub(max, min), FFromInt(numSteps))
       IN  [t |-> "legend",
            title |-> <<currentVisualization.label, " Legend">>,
            description |->
              <<"Gulf Coast InSAR Data ",
                IF Truthy(datasetInfoArg) /\ Truthy(datasetInfoArg.name)
                THEN <<"(", datasetInfoArg.name.text, ")">> ELSE <<>> >>,
            visualizationType |-> visualizationTypeArg,
            ranges |->
              [index \in 1..numSteps |->
                 LET rangeStart == FAdd(min, FMul(FFromInt(index - 1), step))
                     rangeEnd   == FAdd(rangeStart, step)
                 IN  [color |-> purpleGradientColors[index],
                      label |-> JsString(formatLegendNumber(rangeStart).chars
                                           \o <<" ", "-", " ">>
                                           \o formatLegendNumber(rangeEnd).chars)]]]

\* The arguments useLegend is called with: the visualization is absent or
\* one of the options; the dataset descriptor is absent or has a name or
\* none; the visualization type is an option's value or another string.
LegendArguments ==
  [currentVisualization :
     {Null, Undefined} \cup {visualizationOptions[k] : k \in 1..Len(visualizationOptions)},
   datasetInfo :
     {Null, Undefined} \cup
       {[t |-> "dataset", name |-> nm] :
          nm \in {Undefined, Message(""), Message("gulf-coast-insar")}},
   visualizationType :
     {visualizationOptions[k].value : k \in 1..Len(visualizationOptions)}
       \cup {"other"}]

InitLegend ==
  /\ legendArgs \in LegendArguments
  /\ legendConfig = Undefined
  /\ RenderIdle
  /\ MapIdle
  /\ HookIdle
  /\ CatalogIdle

\* The hook runs: useMemo computes legendConfig from the arguments.
LegendMemo ==
  /\ legendArgs # Null
  /\ legendConfig = Undefined
  /\ legendConfig' = useLegend(legendArgs.currentVisualization,
                               legendArgs.datasetInfo,
                               legendArgs.visualizationType)
  /\ UNCHANGED <<legendArgs, renderVars, mapVars, hookVars, catalogVars>>

\* A render with one argument changed: useMemo computes legendConfig anew.
LegendRerender(args) ==
  /\ legendArgs # Null
  /\ legendConfig # Undefined
  /\ Cardinality({f \in DOMAIN args : args[f] # legendArgs[f]}) = 1
  /\ legendArgs' = args
  /\ legendConfig' = useLegend(args.currentVisualization, args.datasetInfo,
                               args.visualizationType)
  /\ UNCHANGED <<renderVars, mapVars, hookVars, catalogVars>>

NextLegend ==
  \/ LegendMemo
  \/ \E args \in LegendArguments : LegendRerender(args)

SpecLegend == InitLegend /\ [][NextLegend]_vars

(***************************************************************************)
(* The raster list of a dataset.                                           *)
(***************************************************************************)
\* Resources of the largest dataset.
MaxResources == 4

\* A resource as the catalog gives it.  created and last_modified are
\* timestamps (undefined when missing): a positive number stands for the
\* date string of that many time units after the epoch.
Resource(format, created, lastModified) ==
  [t |-> "resource", format |-> format, created |-> created,
   last_modified |-> lastModified]

Timestamp(n) == [t |-> "date", time |-> n]

ResourceKinds ==
  {Resource("GeoTIFF", c, m) :
     c \in {Undefined, Timestamp(1), Timestamp(2), Timestamp(3)},
     m \in {Undefined, Timestamp(2)}}
    \cup {Resource("CSV", Timestamp(3), Undefined)}

\* A JavaScript array.
Array(items) == [t |-> "array", items |-> items]

\* The datasets: a list of resources, each with its place in the list as
\* name, or no resources list at all.
DatasetOf(kinds) ==
  [t |-> "dataset",
   resources |-> Array([k \in DOMAIN kinds |-> [name |-> k, resource |-> kinds[k]]])]

NoResourcesDataset == [t |-> "dataset", resources |-> Undefined]

\* The filter of getAllTiffResources: the format names a TIFF.
isTiffResource(r) == r.resource.format \in {"TIFF", "GeoTIFF", "tiff", "geotiff"}

\* The date of a sort that looks at created alone.
dateOfCreatedOnly(r) ==
  IF r.resource.created.t = "date" THEN r.resource.created.time ELSE 0

\* new Date(r.created || r.last_modified || 0), as time units since the epoch.
dateOf(r) ==
  IF r.resource.created.t = "date" THEN r.resource.created.time
  ELSE IF r.resource.last_modified.t = "date" THEN r.resource.last_modified.time
  ELSE 0

\* The comparator of the sort: dateB - dateA.
compareByDate(a, b) == dateOf(b) - dateOf(a)

\* Array.prototype.sort, which is stable: x goes before the first element
\* it must precede.
RECURSIVE insertSorted(_, _)
insertSorted(sorted, x) ==
  IF sorted = <<>> THEN <<x>>
  ELSE IF compareByDate(Head(sorted), x) > 0 THEN <<x>> \o sorted
  ELSE <<Head(sorted)>> \o insertSorted(Tail(sorted), x)

RECURSIVE sortFrom(_, _, _)
sortFrom(list, k, sorted) ==
  IF k > Len(list) THEN sorted
  ELSE sortFrom(list, k + 1, insertSorted(sorted, list[k]))

sort(list) == sortFrom(list, 1, <<>>)

Thrown(message) == [t |-> "thrown", message |-> message]

tiffResources(d) == SelectSeq(d.resources.items, isTiffResource)

\* getAllTiffResources of the components: filter, sort, and the map that
\* adds displayName and id (the resources here all have a name).
getAllTiffResourcesOf(d) ==
  IF d.resources.t = "undefined" THEN Thrown("No resources found in dataset")
  ELSE IF Len(tiffResources(d)) = 0 THEN Thrown("No TIFF files found in dataset")
  ELSE Array(sort(tiffResources(d)))

\* getLatestTiffUrl of the hook: filter, sort, and the first element.
getLatestTiffUrl(d) ==
  IF d.resources.t = "undefined" THEN Thrown("No resources found in dataset")
  ELSE IF Len(tiffResources(d)) = 0 THEN Thrown("No TIFF files found in dataset")
  ELSE sort(tiffResources(d))[1]

InitCatalog ==
  /\ \/ dataset = NoResourcesDataset
     \/ \E n \in 0..MaxResources : \E kinds \in [1..n -> ResourceKinds] :
          dataset = DatasetOf(kinds)
  /\ sortedTiffs = Undefined
  /\ latestTiff = Undefined
  /\ RenderIdle
  /\ MapIdle
  /\ HookIdle
  /\ LegendIdle

\* A component builds its raster list from the dataset.
BuildRasterList ==
  /\ dataset # Null
  /\ sortedTiffs = Undefined
  /\ sortedTiffs' = getAllTiffResourcesOf(dataset)
  /\ UNCHANGED <<dataset, latestTiff, renderVars, mapVars, hookVars, legendVars>>

\* The hook picks the latest raster of the dataset.
PickLatestTiff ==
  /\ dataset # Null
  /\ latestTiff = Undefined
  /\ latestTiff' = getLatestTiffUrl(dataset)
  /\ UNCHANGED <<dataset, sortedTiffs, renderVars, mapVars, hookVars, legendVars>>

NextCatalog ==
  \/ BuildRasterList
  \/ PickLatestTiff

SpecCatalog == InitCatalog /\ [][NextCatalog]_vars

(***************************************************************************)
(* Properties of the two rendering paths.  They are read in the states     *)
(* where both paths have finished drawing the same grid.                   *)
(***************************************************************************)
BothDrawn == renderPc = "done" /\ layerPc = "drawn"

Cells == 1..(grid.width * grid.height)

\* The four bytes the canvas holds for cell p.
PixelBytes(p) == [c \in 1..4 |-> data[(p - 1) * 4 + c]]

\* The sample of the first band at cell p, as written.
FirstBandLiteral(p) == grid.samples[(p - 1) * grid.bands + 1]

\* undefined, null, NaN, or a number strictly below the domain minimum -2.0.
IsMissing(l) == l.k \in {"undefined", "null", "NaN"} \/ (l.k = "dec" /\ l.n < -200)

\* Alpha byte a is 70% of 255 to the nearest byte: |a - 178.5| <= 0.5.
IsSeventyPercent(a) == 10 * a >= 7 * 255 - 5 /\ 10 * a <= 7 * 255 + 5

\* min(9, floor((v - min) / range * 10)) in double arithmetic, v in range.
BinIndex(v) ==
  Min2(9, FFloor(FMul(FDiv(FSub(v, min), range), FFromInt(10))))

\* The canvas bytes of cell p show palette entry idx (0-based) at 70%.
CanvasShows(p, idx) ==
  /\ <<PixelBytes(p)[1], PixelBytes(p)[2], PixelBytes(p)[3]>>
       = hexToRgb(purpleGradientColors[idx + 1]).v
  /\ IsSeventyPercent(PixelBytes(p)[4])

\* The layer drew cell p with palette entry idx (0-based).
LayerShows(p, idx) == layerPixels[p] = purpleGradientColors[idx + 1]

C6_InRangeGetsPaletteColour ==
  (BothDrawn /\ grid.bands = 1) =>
    \A p \in Cells :
      LET l   == FirstBandLiteral(p)
          v   == JsValueOf(l)
          idx == IF FCmp(v, max) > 0 THEN 9 ELSE BinIndex(v)
      IN  ~IsMissing(l) =>
            /\ idx \in 0..9
            /\ CanvasShows(p, idx)
            /\ LayerShows(p, idx)
            /\ (l = Literal("dec", -200) => idx = 0)
            /\ (l = Literal("dec", 20) => idx = 9)

\* C6 witness: both paths have drawn a single-band grid holding 0.2.
C6_Witness ==
  /\ BothDrawn
  /\ grid.bands = 1
  /\ \E p \in Cells : FirstBandLiteral(p) = Literal("dec", 20)

\* The decile boundaries -2.0 + k * 0.22, as decimal literals and as the
\* computed expression, for k = 1..9.
BoundaryIndex(l) ==
  IF l.k = "ramp" THEN l.n
  ELSE IF l.k = "dec" /\ (l.n + 200) % 22 = 0 THEN (l.n + 200) \div 22
  ELSE -1

\* C7: a value on decile boundary k (k = 1..9) is drawn with palette
\* entry k in both paths.
C7_BoundaryStartsBin ==
  (BothDrawn /\ grid.bands = 1) =>
    \A p \in Cells :
      LET k == BoundaryIndex(FirstBandLiteral(p))
      IN  k \in 1..9 => CanvasShows(p, k) /\ LayerShows(p, k)

\* The legend entry (from 0) whose label holds the value of n hundredths:
\* entry e is labelled from -2 + 0.22 e to -2 + 0.22 (e + 1), its start
\* included and its end excluded.
LabelledEntry(n) == (n + 200) \div 22

\* C24: a value in the range labelled by legend entry e, e in 0..9, is
\* drawn in both paths with the colour of that entry, palette entry e.
C24_LegendAndOverlayAgree ==
  (BothDrawn /\ grid.bands = 1) =>
    \A p \in Cells :
      LET l == FirstBandLiteral(p)
      IN  (l.k = "dec" /\ l.n >= -200 /\ l.n < 20) =>
            /\ LabelledEntry(l.n) \in 0..9
            /\ CanvasShows(p, LabelledEntry(l.n))
            /\ LayerShows(p, LabelledEntry(l.n))

\* Every sample is one a typed array of floats can hold: a number or NaN.
IsDecodable(g) ==
  \A k \in 1..Len(g.samples) : g.samples[k].k \in {"dec", "ramp", "NaN"}

\* C8: for every decodable grid the two paths draw the same image: each
\* cell is transparent in both, or has the same palette colour in both.
C8_PathsAgree ==
  (BothDrawn /\ IsDecodable(grid)) =>
    \A p \in Cells :
      \/ PixelBytes(p)[4] = 0 /\ layerPixels[p] = Null
      \/ /\ PixelBytes(p)[4] # 0
         /\ layerPixels[p].t = "string"
         /\ hexToRgb(layerPixels[p]).v
              = <<PixelBytes(p)[1], PixelBytes(p)[2], PixelBytes(p)[3]>>

\* What the first band's sample alone gives at a cell, in each path.
CanvasOfFirstBand(l) == StoreBytes(<<0, 0, 0, 0>>, 0, pixelLoopBody(JsValueOf(l)))

LayerOfFirstBand(l) == pixelValuesToColorFn(<<JsValueOf(l)>>)

\* C9: in a multi-band grid the colour of each cell is determined by the
\* first band's value at that cell alone, in both paths.
C9_FirstBandOnly ==
  (BothDrawn /\ grid.bands > 1) =>
    \A p \in Cells :
      /\ PixelBytes(p) = CanvasOfFirstBand(FirstBandLiteral(p))
      /\ layerPixels[p] = LayerOfFirstBand(FirstBandLiteral(p))


\* The byte offsets the loop's iteration i stores at: j + k of data[j + k].
StoreOffsets ==
  {i * 4 + k : k \in DOMAIN pixelLoopBody(ArrayGet(readRasters(grid), i))}

\* C20: every iteration of the render loop stores inside the buffer of
\* width * height * 4 bytes, at the four offsets of cell i, and the loop
\* ends having visited each of the width * height cells once, in order.
C20_LoopCoversBuffer ==
  [][/\ pixelLoopIteration =>
          /\ i < grid.width * grid.height
          /\ StoreOffsets \subseteq (4 * i)..(4 * i + 3)
          /\ \A o \in StoreOffsets : o < Len(data) /\ Len(data) = grid.width * grid.height * 4
          /\ i' = i + 1
     /\ putImageData => i = grid.width * grid.height]_vars

(***************************************************************************)
(* Properties of the map component.                                        *)
(***************************************************************************)
\* No loadTiffData call and no renderTiffOverlay call is still waiting.
LoadsSettled == tiffRequests = {} /\ renders = {}

\* C1: once every load and render has completed, the tiffData held is that
\* of the latest selection, and the overlay the component holds for decoded
\* data is the latest selection's: an earlier selection's late result has
\* replaced neither.
C1_StaleResultSuppressed ==
  (LoadsSettled /\ tiffData # Null) =>
    /\ tiffData.req = issuedTiff
    /\ (tiffData.isActualData /\ currentLayerRef # Null) =>
         currentLayerRef = Overlay(issuedTiff)

\* C2: at most one overlay is attached to the map, and it is the one held
\* in currentLayerRef.
C2_SingleOverlay ==
  /\ Cardinality(mapLayers) <= 1
  /\ mapLayers = IF currentLayerRef = Null THEN {} ELSE {currentLayerRef}

\* A load attempt ends in failure: the catalog request failed or gave no
\* TIFF resource, or the raster fetch or its decoding failed.
LoadAttemptFails ==
  \/ \E o \in CatalogOutcomes : LoadDatasetInfoFailed(o)
  \/ \E l \in tiffRequests, cause \in {"fetch", "decode"} : LoadTiffDataFailed(l, cause)

\* C3: every failed load attempt ends with error set to a non-empty
\* message and loading false.
C3_FailedLoadSetsError ==
  [][LoadAttemptFails => (error' # Null /\ error'.text # "" /\ ~loading')]_vars

\* C4: after a decode failure of fetched bytes, once everything has
\* completed, no overlay is attached to the map and error holds a message.
C4_DecodeFailureIsPlaceholder ==
  (LoadsSettled /\ tiffData # Null /\ tiffData.error = Message("decode")) =>
    mapLayers = {} /\ error # Null

\* Decoding has succeeded and building or attaching the overlay fails: the
\* layer's constructor or addTo throws, or renderTiffOverlay throws before
\* or after the overlay is on the map.
OverlayFails ==
  \/ \E l \in tiffRequests, georaster \in NativeBoxes : LoadTiffDataOk(l, FALSE, georaster)
  \/ \E r \in renders : RenderFailed(r)
  \/ \E r \in renders : RenderDone(r, FALSE)

\* C17: when building or attaching the overlay fails, error is set to a
\* non-empty message and no overlay is left attached to the map.
C17_RenderFailureSurfaced ==
  [][OverlayFails => (error' # Null /\ error' # Message("") /\ mapLayers' = {})]_vars

\* The render of load attempt r.req fails and its catch sets error.
RenderSetsError(r) == RenderFailed(r) \/ RenderDone(r, FALSE)

\* C21: a raster-load attempt whose render sets the error message is the
\* most recently started one: no earlier attempt's render sets error once a
\* later attempt has started.
C21_ErrorOfLatestAttempt ==
  [][\A r \in renders : RenderSetsError(r) => r.req = issuedTiff]_vars

\* C26: loading is true while a catalog request, a raster fetch or the
\* decoding of a fetched raster (in the canvas variant the reading of its
\* samples by renderTiffOverlay) is in flight.
C26_LoadingWhileInFlight ==
  (catalogRequests > 0 \/ tiffRequests # {} \/ renders # {}) => loading

\* C14: after any failed load attempt (of the catalog, of the fetch or of
\* the decoding) the retry action is available.
C14_RetryAfterFailedLoad ==
  [][LoadAttemptFails => RetryAvailable']_vars

\* C15: while a raster fetch is outstanding the raster selector accepts a
\* selection.
C15_SelectionAcceptedDuringFetch ==
  tiffRequests # {} => ~SelectDisabled

(***************************************************************************)
(* Properties of the authenticated data hook.                              *)
(***************************************************************************)
\* The limit l (a whole number of degrees) in hundredths.
Hundredths(l) == 100 * l

\* C10: the decoded raster held is classified isProjected = false exactly
\* when xmin >= -180 and xmax <= 180 and ymin >= -90 and ymax <= 90, and
\* isProjected = true in every other case.
C10_GeographicDetection ==
  hookTiffData # Null =>
    LET g == hookTiffData.georaster
    IN  hookTiffData.bounds.isProjected =
          ~(/\ g.xmin.k = "dec" /\ g.xmin.n >= Hundredths(-180)
            /\ g.xmax.k = "dec" /\ g.xmax.n <= Hundredths(180)
            /\ g.ymin.k = "dec" /\ g.ymin.n >= Hundredths(-90)
            /\ g.ymax.k = "dec" /\ g.ymax.n <= Hundredths(90))

\* C10 witness: a raster whose bounds lie exactly on the four limits is held
\* and classified geographic.
C10_Witness ==
  /\ hookTiffData # Null
  /\ hookTiffData.georaster =
       [xmin |-> Literal("dec", -18000), xmax |-> Literal("dec", 18000),
        ymin |-> Literal("dec", -9000), ymax |-> Literal("dec", 9000)]
  /\ ~hookTiffData.bounds.isProjected


\* The coordinate v lies between lo and hi degrees.
WithinDegrees(v, lo, hi) ==
  v.k = "dec" /\ v.n >= Hundredths(lo) /\ v.n <= Hundredths(hi)

\* a < b, of two coordinates.
Below(a, b) == a.k = "dec" /\ b.k = "dec" /\ a.n < b.n

C22_LoggedOutHoldsNothing ==
  (~authInfo.isAuthenticated /\ hookRequests = {}) =>
    /\ hookTiffData = Null
    /\ hookDatasetInfo = Null
    /\ hookError = Null

\* A load of the hook fails.
HookLoadFails ==
  \E r \in hookRequests, stage \in {"catalog", "noTiff", "fetch", "decode"} :
    HookLoadFailed(r, stage)

\* C23: a failed load of the hook is not started again by the hook itself:
\* the failure leaves loading false and the error message, and starts no
\* load.
C23_FailedLoadNotRestarted ==
  [][HookLoadFails =>
       /\ hookIssued' = hookIssued
       /\ ~hookLoading'
       /\ hookError' # Null]_vars

\* C25: after handleAuthChange has processed a payload of Header,
\* authInfo.token is null or a string, and a string after a login.
C25_TokenIsNullOrString ==
  [][\A a \in HeaderPayloads :
       handleAuthChange(a) =>
         /\ authInfo'.token.t \in {"null", "string"}
         /\ a.isAuthenticated => authInfo'.token.t = "string"]_vars

\* A raster-selection event: the list's first raster selected after the
\* catalog query, or the user's choice in the selector.
SelectionEvent ==
  \/ \E o \in CatalogOutcomes : LoadDatasetInfoOk(o)
  \/ \E rasterId \in 1..NumRasters : handleRasterChange(rasterId)

\* C16: a raster-selection event starts exactly one load, of the raster
\* selected, and nothing else starts one; of one event no two loads or
\* renders are in flight, nor a load and a render together; and the hook
\* starts its automatic load only while it holds no data and no other load
\* of its own is in flight.
C16_OneLoadPerSelection ==
  [][/\ SelectionEvent =>
          /\ issuedTiff' = issuedTiff + 1
          /\ \A l \in tiffRequests : l.req # issuedTiff'
          /\ tiffRequests' = tiffRequests \cup {[req |-> issuedTiff', info |-> selectedRaster']}
     /\ issuedTiff' # issuedTiff => SelectionEvent
     /\ \A a, b \in tiffRequests' : a.req = b.req => a = b
     /\ \A a, b \in renders' : a.req = b.req => a = b
     /\ \A a \in tiffRequests', b \in renders' : a.req # b.req
     /\ hookIssued' # hookIssued =>
          /\ hookTiffData = Null /\ hookTiffData' = Null
          /\ hookRequests' = {[req |-> hookIssued']}]_vars

\* C16 witness: the user's second selection has started its load, the only
\* one in flight.
C16_Witness ==
  /\ issuedTiff = 2
  /\ selectedRaster # Null /\ selectedRaster.id = 2
  /\ tiffRequests = {[req |-> 2, info |-> selectedRaster]}

\* The guards of loadTiffData turn the call down.
LoadRejected(auth) == ~auth.isAuthenticated \/ auth.token.t # "string"

GuardMessages ==
  {Message("Please log in to access the Gulf Coast InSAR TIFF data"),
   Message("Invalid authentication token")}

FallbackBounds ==
  << <<Literal("dec", 2500), Literal("dec", -9750)>>,
     <<Literal("dec", 3050), Literal("dec", -8000)>> >>

\* C11: the overlay held is placed with the bounds the decode step's
\* displayBounds gives for its raster: the fallback box, with originalBounds
\* the native bounds, when the native bounds are not geographic.
C11_ProjectedPlacedInFallbackBox ==
  (currentLayerRef # Null /\ placedBounds # Null
     /\ placedBounds.req = currentLayerRef.req) =>
    LET g == placedBounds.georaster
        b == displayBounds(g)
    IN  /\ placedBounds.bounds = <<<<b.ymin, b.xmin>>, <<b.ymax, b.xmax>>>>
        /\ ~isGeographic(g) =>
             placedBounds.bounds = FallbackBounds /\ b.originalBounds = g


(***************************************************************************)
(* Properties of the legend.                                               *)
(***************************************************************************)
\* A number of thousandths m, written with three decimals.
ThreeDecimals(m) ==
  (IF m < 0 THEN <<"-">> ELSE <<>>)
    \o NatChars((IF m < 0 THEN -m ELSE m) \div 1000)
    \o <<".">> \o Tail(NatChars(1000 + ((IF m < 0 THEN -m ELSE m) % 1000)))

\* The legend has 10 entries, entry i (from 0) with colour palette[i] and
\* the label of -2 + 0.22 i and -2 + 0.22 (i + 1) with three decimals.
IsTenEntryLegend(l) ==
  /\ l # Null
  /\ Len(l.ranges) = 10
  /\ \A e \in 1..10 :
       /\ l.ranges[e].color = purpleGradientColors[e]
       /\ l.ranges[e].label.chars =
            ThreeDecimals(-2000 + 220 * (e - 1)) \o <<" ", "-", " ">>
              \o ThreeDecimals(-2000 + 220 * e)
  /\ l.ranges[1].label.chars =
       <<"-", "2", ".", "0", "0", "0", " ", "-", " ", "-", "1", ".", "7", "8", "0">>
  /\ l.ranges[10].label.chars =
       <<"-", "0", ".", "0", "2", "0", " ", "-", " ", "0", ".", "2", "0", "0">>

\* C12 as stated: for every combination of its arguments the legend
\* builder returns the ten entries.
C12_LegendAlwaysTenEntries ==
  legendConfig # Undefined => IsTenEntryLegend(legendConfig)

\* C12 amended: for every combination of its arguments with a visualization
\* present the legend builder returns the ten entries; with none it
\* returns no legend.
C12_LegendTenEntriesWhenVisualization ==
  legendConfig # Undefined =>
    IF legendArgs.currentVisualization \in {Null, Undefined}
    THEN legendConfig = Null
    ELSE IsTenEntryLegend(legendConfig)

\* C12 witness: a legend has been built for a visualization.
C12_Witness ==
  /\ legendConfig \notin {Undefined, Null}
  /\ legendArgs.currentVisualization = visualizationOptions[1]


(***************************************************************************)
(* Properties of the raster list.                                          *)
(***************************************************************************)
\* The list has been built, not thrown.
ListBuilt == sortedTiffs.t = "array"

TimeOrZero(v) == IF v.t = "date" THEN v.time ELSE 0

\* The built list holds exactly the TIFF resources of the dataset.
HoldsTheTiffs ==
  /\ {sortedTiffs.items[k] : k \in 1..Len(sortedTiffs.items)}
       = {dataset.resources.items[k] : k \in {j \in 1..Len(dataset.resources.items) :
                                           isTiffResource(dataset.resources.items[j])}}
  /\ Cardinality({sortedTiffs.items[k] : k \in 1..Len(sortedTiffs.items)}) = Len(sortedTiffs.items)

\* C13 as stated: the list is in descending order of created, a missing
\* created counting as the epoch, so that such a resource comes last.
C13_SortedByCreated ==
  ListBuilt =>
    /\ HoldsTheTiffs
    /\ \A k \in 1..(Len(sortedTiffs.items) - 1) :
         TimeOrZero(sortedTiffs.items[k].resource.created)
           >= TimeOrZero(sortedTiffs.items[k + 1].resource.created)

\* The timestamp a resource is ordered by: created, last_modified when
\* created is missing, the epoch when both are.
OrderingTime(r) ==
  IF r.resource.created.t = "date" THEN r.resource.created.time
  ELSE TimeOrZero(r.resource.last_modified)

\* C13 amended: the list is in descending order of created, or of
\* last_modified where created is missing; a resource with neither counts
\* as the epoch and comes last; resources of equal time keep the order of
\* the catalog; the hook picks the first of that list.
C13_SortedByCreatedOrModified ==
  /\ ListBuilt =>
       /\ HoldsTheTiffs
       /\ \A k \in 1..(Len(sortedTiffs.items) - 1) :
            \/ OrderingTime(sortedTiffs.items[k]) > OrderingTime(sortedTiffs.items[k + 1])
            \/ /\ OrderingTime(sortedTiffs.items[k]) = OrderingTime(sortedTiffs.items[k + 1])
               /\ sortedTiffs.items[k].name < sortedTiffs.items[k + 1].name
  /\ (ListBuilt /\ latestTiff # Undefined) => latestTiff = sortedTiffs.items[1]

\* C13 witness: the list has been built of resources created at T3, T2, T1
\* and one with neither timestamp, given in another order.
C13_Witness ==
  /\ ListBuilt
  /\ Len(sortedTiffs.items) = 4
  /\ dataset.resources.items[1].resource = Resource("GeoTIFF", Undefined, Undefined)
  /\ [k \in 1..4 |-> sortedTiffs.items[k].resource]
       = <<Resource("GeoTIFF", Timestamp(3), Undefined),
           Resource("GeoTIFF", Timestamp(2), Undefined),
           Resource("GeoTIFF", Timestamp(1), Undefined),
           Resource("GeoTIFF", Undefined, Undefined)>>

====
